---- MODULE Spec2Model ----
(***************************************************************************)
(* Model of lib/ansible/module_utils/k8s/common.py: the authentication     *)
(* resolver K8sAnsibleMixin.get_api_client (with client_from_kubeconfig)   *)
(* and the selective diff K8sAnsibleMixin.diff_objects.                    *)
(*                                                                         *)
(* Python values are modelled as follows.  An option value is a string;    *)
(* None is the distinguished string NoneVal, a key that the mapping does   *)
(* not hold is Missing, and an attribute of a Configuration object that    *)
(* nobody has set is Unset.  A mapping of options is a total function on   *)
(* AllKeys whose Missing entries are the keys it does not hold.            *)
(***************************************************************************)
EXTENDS Integers, Sequences, FiniteSets, TLC

VARIABLES
    kwargs,          \* the **auth keyword arguments of the invocation
    params,          \* self.params (all Missing: no such attribute, or {})
    environ,         \* os.environ, by variable name
    pc,              \* "ready": an invocation is about to run; "done": it has ended
    default_config,  \* kubernetes.client.Configuration._default (process wide)
    configuration,   \* the local `configuration` of the last invocation
    auth_method,     \* the local `auth_method` of the last invocation
    calls,           \* the calls into kubernetes.config made by the last invocation
    outcome,         \* "returned" or "raised" (or "none" before any invocation)
    client_config,   \* the configuration of the ApiClient inside the returned client
    previous_default, \* history: default_config as the last invocation found it
    existing,        \* diff_objects: first argument
    new,             \* diff_objects: second argument
    dpc,             \* "ready" / "done" for diff_objects
    result           \* what diff_objects produced

vars == <<kwargs, params, environ, pc, default_config, configuration,
          auth_method, calls, outcome, client_config, previous_default,
          existing, new, dpc, result>>

authVars == <<kwargs, params, environ, pc, default_config, configuration,
              auth_method, calls, outcome, client_config, previous_default>>

diffVars == <<existing, new, dpc, result>>

-----------------------------------------------------------------------------
(* Bounds of the model *)

\* keys of an input mapping that may deviate from its background (FieldMappings)
MaxFieldKeys == 1
\* environment variables that are set
MaxEnv == 1
\* nesting depth of the documents handed to diff_objects
MaxDepth == 1
\* length of the sequences inside those documents
MaxListLen == 1

-----------------------------------------------------------------------------
(* Python values *)

NoneVal == "<None>"
Missing == "<missing>"
Unset   == "<unset>"

\* bool(v) for an option value
Truthy(v) == v \notin {NoneVal, ""}

\* common.py:69-94
AUTH_ARG_SPEC ==
    {"kubeconfig", "context", "host", "api_key", "username", "password",
     "verify_ssl", "ssl_ca_cert", "cert_file", "key_file"}

\* a key of COMMON_ARG_SPEC (common.py:44-67): self.params holds such keys too
OtherKeys == {"state"}

AllKeys == AUTH_ARG_SPEC \cup OtherKeys

\* the keys the method selection reads (common.py:131-135)
MethodKeys == {"username", "password", "host", "api_key", "kubeconfig", "context"}

\* key.upper()
Upper ==
    [k \in AUTH_ARG_SPEC |->
        CASE k = "kubeconfig"  -> "KUBECONFIG"
          [] k = "context"     -> "CONTEXT"
          [] k = "host"        -> "HOST"
          [] k = "api_key"     -> "API_KEY"
          [] k = "username"    -> "USERNAME"
          [] k = "password"    -> "PASSWORD"
          [] k = "verify_ssl"  -> "VERIFY_SSL"
          [] k = "ssl_ca_cert" -> "SSL_CA_CERT"
          [] k = "cert_file"   -> "CERT_FILE"
          [] k = "key_file"    -> "KEY_FILE"]

\* 'K8S_AUTH_{}'.format(key.upper())
EnvName(key) == "K8S_AUTH_" \o Upper[key]

EnvNames == {EnvName(k) : k \in AUTH_ARG_SPEC}

\* os.getenv(name, None)
getenv(env, name) == IF name \in DOMAIN env THEN env[name] ELSE NoneVal

\* {'authorization': "Bearer {}".format(value)}
Bearer(value) == "authorization: Bearer " \o value

\* dict.get(key) of an option mapping
Get(m, key) == IF m[key] = Missing THEN NoneVal ELSE m[key]

EmptyMapping == [k \in AllKeys |-> Missing]

\* bool(mapping): a mapping is falsy when it holds no key
IsEmpty(m) == \A k \in AllKeys : m[k] = Missing

\* auth = auth or getattr(self, 'params', {})
EffectiveAuth(kw, pm) == IF ~IsEmpty(kw) THEN kw ELSE pm

-----------------------------------------------------------------------------
(* kubernetes.client.Configuration objects: a function from attribute to value *)

BlankConfiguration == [k \in AllKeys |-> Unset]

\* what kubernetes.config.load_incluster_config installs as the default
InClusterConfiguration ==
    [BlankConfiguration EXCEPT !["host"] = "https://in-cluster",
                               !["ssl_ca_cert"] = "/var/run/secrets/ca.crt",
                               !["api_key"] = "authorization: bearer in-cluster-token"]

\* what kubernetes.config.new_client_from_config reads from the credential file:
\* a configuration of its own, built from nothing this module holds
KubeconfigConfiguration ==
    [BlankConfiguration EXCEPT !["host"] = "https://from-kubeconfig",
                               !["api_key"] = "authorization: bearer kubeconfig-token"]

\* common.py:118-127, the loop body for one key
ConfigValueEnvFirst(base, auth, env, key) ==
    IF key \notin AUTH_ARG_SPEC \/ auth[key] = Missing THEN base[key]
    ELSE IF getenv(env, EnvName(key)) # NoneVal
         THEN getenv(env, EnvName(key))
         ELSE IF auth[key] # NoneVal
              THEN (IF key = "api_key" THEN Bearer(auth[key]) ELSE auth[key])
              ELSE base[key]
ConfigValue(base, auth, env, key) ==
    IF key \notin AUTH_ARG_SPEC \/ auth[key] = Missing
    THEN base[key]                                  \* not iterated, or not an auth key
    ELSE IF auth[key] # NoneVal
         THEN (IF key = "api_key" THEN Bearer(auth[key]) ELSE auth[key])
         ELSE IF getenv(env, EnvName(key)) # NoneVal
              THEN getenv(env, EnvName(key))
              ELSE base[key]

\* common.py:117-127
BuildConfiguration(base, auth, env) ==
    [key \in AllKeys |-> ConfigValue(base, auth, env, key)]

\* common.py:131-138
AuthMethodFileFirst(auth) ==
    IF Truthy(Get(auth, "kubeconfig")) \/ Truthy(Get(auth, "context"))
    THEN "file"
    ELSE IF Truthy(Get(auth, "username")) /\ Truthy(Get(auth, "password"))
            /\ Truthy(Get(auth, "host"))
         THEN "params"
         ELSE IF Truthy(Get(auth, "api_key")) /\ Truthy(Get(auth, "host"))
              THEN "params"
              ELSE "default"
AuthMethod(auth) ==
    IF Truthy(Get(auth, "username")) /\ Truthy(Get(auth, "password"))
       /\ Truthy(Get(auth, "host"))
    THEN "params"
    ELSE IF Truthy(Get(auth, "api_key")) /\ Truthy(Get(auth, "host"))
         THEN "params"
         ELSE IF Truthy(Get(auth, "kubeconfig")) \/ Truthy(Get(auth, "context"))
              THEN "file"
              ELSE "default"

-----------------------------------------------------------------------------
(* The collaborators' outcomes *)

\* kubernetes.config.load_incluster_config()
InClusterOutcomes == {"ok", "ConfigException", "OtherError"}

\* kubernetes.config.new_client_from_config(config_file, context)
KubeconfigOutcomes == {"ok", "IOError", "ConfigException", "OtherError"}

NoClient == [k \in AllKeys |-> "<no client>"]

\* common.py:154-163.  dflt is the process-wide default at the time of the call:
\* kubernetes.client.ApiClient() without argument uses it.
client_from_kubeconfigSwallow(config_file, context, kc, dflt) ==
    LET call == <<"new_client_from_config", config_file, context, kc>> IN
    IF kc = "ok"
    THEN [outcome |-> "returned", client_config |-> KubeconfigConfiguration,
          calls |-> <<call>>]
    ELSE IF kc \in {"IOError", "ConfigException"}
         THEN [outcome |-> "returned", client_config |-> dflt, calls |-> <<call>>]
         ELSE [outcome |-> "raised", client_config |-> NoClient, calls |-> <<call>>]
client_from_kubeconfig(config_file, context, kc, dflt) ==
    LET call == <<"new_client_from_config", config_file, context, kc>> IN
    IF kc = "ok"
    THEN [outcome |-> "returned", client_config |-> KubeconfigConfiguration,
          calls |-> <<call>>]
    ELSE IF kc \in {"IOError", "ConfigException"}        \* the except clause
         THEN IF ~Truthy(config_file)                     \* if not config_file
              THEN [outcome |-> "returned", client_config |-> dflt,
                    calls |-> <<call>>]
              ELSE [outcome |-> "raised", client_config |-> NoClient,
                    calls |-> <<call>>]
         ELSE [outcome |-> "raised", client_config |-> NoClient, calls |-> <<call>>]

\* common.py:141-146, the branch auth_method == 'default'
DefaultBranchCatchAll(auth, dflt, inc, kc) ==
    LET call == <<"load_incluster_config", inc>> IN
    IF inc = "ok"
    THEN [outcome |-> "returned", client_config |-> InClusterConfiguration,
          default_config |-> InClusterConfiguration, calls |-> <<call>>]
    ELSE LET r == client_from_kubeconfig(Get(auth, "kubeconfig"),
                                         Get(auth, "context"), kc, dflt)
         IN  [outcome |-> r.outcome, client_config |-> r.client_config,
              default_config |-> dflt, calls |-> <<call>> \o r.calls]
DefaultBranch(auth, dflt, inc, kc) ==
    LET call == <<"load_incluster_config", inc>> IN
    IF inc = "ok"
    THEN \* load_incluster_config installs the in-cluster configuration as the
         \* default, and ApiClient() takes the default
         [outcome |-> "returned", client_config |-> InClusterConfiguration,
          default_config |-> InClusterConfiguration, calls |-> <<call>>]
    ELSE IF inc = "ConfigException"
         THEN LET r == client_from_kubeconfig(Get(auth, "kubeconfig"),
                                              Get(auth, "context"), kc, dflt)
              IN  [outcome |-> r.outcome, client_config |-> r.client_config,
                   default_config |-> dflt, calls |-> <<call>> \o r.calls]
         ELSE [outcome |-> "raised", client_config |-> NoClient,
               default_config |-> dflt, calls |-> <<call>>]

\* common.py:148-149, the branch auth_method == 'file'
FileBranch(auth, dflt, kc) ==
    LET r == client_from_kubeconfig(Get(auth, "kubeconfig"),
                                    Get(auth, "context"), kc, dflt)
    IN  [outcome |-> r.outcome, client_config |-> r.client_config,
         default_config |-> dflt, calls |-> r.calls]

\* common.py:151-152, the branch auth_method == 'params'
ParamsBranchDropsApiKey(conf, dflt) ==
    [outcome |-> "returned", client_config |-> [conf EXCEPT !["api_key"] = Unset],
     default_config |-> dflt, calls |-> <<>>]
ParamsBranch(conf, dflt) ==
    [outcome |-> "returned", client_config |-> conf,
     default_config |-> dflt, calls |-> <<>>]

\* Configuration.set_default(configuration), common.py:129
set_defaultSkipped(old, conf) == old
set_default(old, conf) == conf

\* common.py:112-152.  base is what kubernetes.client.Configuration() returns.
get_api_client(kw, pm, env, base, dflt, inc, kc) ==
    LET auth   == EffectiveAuth(kw, pm)
        conf   == BuildConfiguration(base, auth, env)
        dflt1  == set_default(dflt, conf)
        method == AuthMethod(auth)
        r      == CASE method = "default" -> DefaultBranch(auth, dflt1, inc, kc)
                    [] method = "file"    -> FileBranch(auth, dflt1, kc)
                    [] method = "params"  -> ParamsBranch(conf, dflt1)
    IN  [auth |-> auth, configuration |-> conf, auth_method |-> method,
         outcome |-> r.outcome, client_config |-> r.client_config,
         default_config |-> r.default_config, calls |-> r.calls]

-----------------------------------------------------------------------------
(* The inputs an invocation is given *)

OptionValues == {Missing, NoneVal, "", "x"}

\* a mapping is written over a background: Missing for keyword arguments that
\* name only some keys, NoneVal for the params of a module, which hold every key
Backgrounds == {Missing, NoneVal}

\* every combination of None, empty and set over the keys the method selection
\* reads, in the params of a module; and of missing and set, in a sparse mapping
MethodMappings ==
    {[k \in AllKeys |-> IF k \in MethodKeys THEN m[k] ELSE NoneVal] :
        m \in [MethodKeys -> {NoneVal, "", "x"}]}
    \cup {[k \in AllKeys |-> IF k \in MethodKeys THEN m[k] ELSE Missing] :
            m \in [MethodKeys -> {Missing, "x"}]}

RECURSIVE Deviate(_, _, _)
\* the mappings that differ from one of ms in at most n keys
Deviate(ms, values, n) ==
    IF n = 0 THEN ms
    ELSE Deviate(ms \cup {[m EXCEPT ![k] = v] : m \in ms, k \in AllKeys, v \in values},
                 values, n - 1)

\* any key (the ssl options and the non-auth key too) holding any value
FieldMappings ==
    Deviate({[k \in AllKeys |-> bg] : bg \in Backgrounds}, OptionValues, MaxFieldKeys)

\* the params of a module run: every auth key, and the module's own options
ModuleParams ==
    [k \in AllKeys |-> IF k = "state" THEN "present"
                       ELSE IF k = "host" THEN "params-host" ELSE NoneVal]

\* <<kwargs, params>>: the mappings given as params with no keyword argument,
\* and the keyword mappings given over the params of a module
InputPairs(mappings, keywords) ==
    {<<EmptyMapping, pm>> : pm \in mappings}
    \cup {<<kw, ModuleParams>> : kw \in keywords \ {EmptyMapping}}

AuthInputs == InputPairs(MethodMappings \cup FieldMappings, FieldMappings)

\* sequences of invocations: three keys, and two hosts that tell invocations apart
SeqMappingsOver(bg) ==
    {[k \in AllKeys |-> CASE k = "host" -> h
                           [] k = "api_key" -> a
                           [] k = "kubeconfig" -> f
                           [] OTHER -> bg] :
        h \in {bg, "x", "y"}, a \in {bg, "x"}, f \in {bg, "x"}}

SeqInputs ==
    InputPairs(SeqMappingsOver(Missing) \cup SeqMappingsOver(NoneVal),
               SeqMappingsOver(Missing))

RECURSIVE EnvDeviate(_, _)
EnvDeviate(es, n) ==
    IF n = 0 THEN es
    ELSE EnvDeviate(es \cup {[e EXCEPT ![v] = "e"] : e \in es, v \in EnvNames}, n - 1)

\* os.environ with at most MaxEnv of the K8S_AUTH_ variables set
Environs == EnvDeviate({[v \in EnvNames |-> NoneVal]}, MaxEnv)

-----------------------------------------------------------------------------
(* Documents: Python values as tagged records.  A mapping is a function on   *)
(* Keys whose Absent entries are the keys it does not hold.                  *)

Keys == {"a", "b"}

\* the order in which a mapping's keys are iterated
KeyOrder == <<"a", "b">>

Absent  == [t |-> "absent"]
VNone   == [t |-> "none"]
VInt(n) == [t |-> "int", i |-> n]
VDict(f) == [t |-> "dict", d |-> f]
VList(s) == [t |-> "list", l |-> s]

EmptyDict == VDict([k \in Keys |-> Absent])

\* the AttributeError that `o1.get` raises on a value that is no mapping
ErrorVal == [t |-> "error"]

HasKey(v, k) == v.d[k] # Absent

KeysOf(v) == {k \in Keys : HasKey(v, k)}

\* a list index as a path element
IndexName(i) == <<"0", "1", "2", "3">>[i + 1]

\* SelectSeq over the key order
KeySeq(S) == SelectSeq(KeyOrder, LAMBDA k : k \in S)

RECURSIVE get_shared_attrsNoDefault(_, _)
\* common.py:191-198 with `o1.get(k, v)` in place of `o1.get(k)` / `o1.get(k, {})`:
\* a key that existing lacks takes the value of new
get_shared_attrsNoDefault(o1, o2) ==
    LET sub(k) ==
            IF o2.d[k].t = "dict"
            THEN get_shared_attrsNoDefault(IF HasKey(o1, k) THEN o1.d[k] ELSE o2.d[k],
                                           o2.d[k])
            ELSE IF HasKey(o1, k) THEN o1.d[k] ELSE o2.d[k]
    IN  IF KeysOf(o2) = {} THEN EmptyDict
        ELSE IF o1.t # "dict" THEN ErrorVal
        ELSE IF \E k \in KeysOf(o2) : sub(k) = ErrorVal THEN ErrorVal
        ELSE VDict([k \in Keys |-> IF HasKey(o2, k) THEN sub(k) ELSE Absent])

RECURSIVE get_shared_attrsWhole(_, _)
\* common.py:191-198 without the recursion: a nested mapping of existing is
\* taken whole
get_shared_attrsWhole(o1, o2) ==
    IF KeysOf(o2) = {} THEN EmptyDict
    ELSE IF o1.t # "dict" THEN ErrorVal
    ELSE VDict([k \in Keys |->
                  IF ~HasKey(o2, k) THEN Absent
                  ELSE IF HasKey(o1, k) THEN o1.d[k]
                  ELSE IF o2.d[k].t = "dict" THEN EmptyDict ELSE VNone])

RECURSIVE get_shared_attrsFromEmpty(_, _)
\* common.py:191-198 recursing into {} instead of o1.get(k, {})
get_shared_attrsFromEmpty(o1, o2) ==
    LET sub(k) ==
            IF o2.d[k].t = "dict"
            THEN get_shared_attrsFromEmpty(EmptyDict, o2.d[k])
            ELSE IF HasKey(o1, k) THEN o1.d[k] ELSE VNone
    IN  IF KeysOf(o2) = {} THEN EmptyDict
        ELSE IF o1.t # "dict" THEN ErrorVal
        ELSE IF \E k \in KeysOf(o2) : sub(k) = ErrorVal THEN ErrorVal
        ELSE VDict([k \in Keys |-> IF HasKey(o2, k) THEN sub(k) ELSE Absent])

RECURSIVE get_shared_attrs(_, _)
\* common.py:191-198.  o2 is a mapping; the loop body calls o1.get for every key
\* of o2, which raises when o1 is no mapping.
get_shared_attrs(o1, o2) ==
    LET sub(k) ==
            IF o2.d[k].t = "dict"                          \* isinstance(v, dict)
            THEN get_shared_attrs(IF HasKey(o1, k) THEN o1.d[k] ELSE EmptyDict,
                                  o2.d[k])                 \* o1.get(k, {})
            ELSE IF HasKey(o1, k) THEN o1.d[k] ELSE VNone  \* o1.get(k)
    IN  IF KeysOf(o2) = {} THEN EmptyDict                  \* the loop does not run
        ELSE IF o1.t # "dict" THEN ErrorVal
        ELSE IF \E k \in KeysOf(o2) : sub(k) = ErrorVal THEN ErrorVal
        ELSE VDict([k \in Keys |-> IF HasKey(o2, k) THEN sub(k) ELSE Absent])

\* one entry of dictdiffer's result
Change(node, first, second) ==
    [kind |-> "change", path |-> node, first |-> first, second |-> second]
Added(node, items)   == [kind |-> "add", path |-> node, items |-> items]
Removed(node, items) == [kind |-> "remove", path |-> node, items |-> items]

RECURSIVE Flatten(_)
Flatten(ss) == IF ss = <<>> THEN <<>> ELSE Head(ss) \o Flatten(Tail(ss))

Min(x, y) == IF x < y THEN x ELSE y

RECURSIVE diff(_, _, _)
\* dictdiffer.diff(first, second) as common.py:200 calls it: mappings key by key,
\* sequences index by index, anything else by equality
diff(first, second, node) ==
    IF first.t = "dict" /\ second.t = "dict"
    THEN LET inter == KeySeq(KeysOf(first) \cap KeysOf(second))
             addition == KeySeq(KeysOf(second) \ KeysOf(first))
             deletion == KeySeq(KeysOf(first) \ KeysOf(second))
         IN  Flatten([j \in 1..Len(inter) |->
                        diff(first.d[inter[j]], second.d[inter[j]],
                             node \o <<inter[j]>>)])
             \o (IF addition # <<>>
                 THEN <<Added(node, [j \in 1..Len(addition) |->
                                       <<addition[j], second.d[addition[j]]>>])>>
                 ELSE <<>>)
             \o (IF deletion # <<>>
                 THEN <<Removed(node, [j \in 1..Len(deletion) |->
                                         <<deletion[j], first.d[deletion[j]]>>])>>
                 ELSE <<>>)
    ELSE IF first.t = "list" /\ second.t = "list"
    THEN LET lf == Len(first.l)
             ls == Len(second.l)
             m  == Min(lf, ls)
         IN  Flatten([j \in 1..m |->
                        diff(first.l[j], second.l[j], node \o <<IndexName(j - 1)>>)])
             \o (IF ls > m
                 THEN <<Added(node, [j \in 1..(ls - m) |->
                                       <<IndexName(m + j - 1), second.l[m + j]>>])>>
                 ELSE <<>>)
             \o (IF lf > m
                 THEN <<Removed(node, [j \in 1..(lf - m) |->
                                         <<IndexName(lf - j), first.l[lf - j + 1]>>])>>
                 ELSE <<>>)
    ELSE IF first # second
         THEN <<Change(node, first, second)>>
         ELSE <<>>

NoResult == [error |-> FALSE, match |-> FALSE, diffs |-> <<>>]

\* common.py:188-202
diff_objects(ex, nw) ==
    LET shared == get_shared_attrs(ex, nw) IN
    IF shared = ErrorVal
    THEN [error |-> TRUE, match |-> FALSE, diffs |-> <<>>]     \* AttributeError
    ELSE LET diffs == diff(nw, shared, <<>>)
         IN  [error |-> FALSE, match |-> (Len(diffs) = 0), diffs |-> diffs]

\* the documents handed to diff_objects
Leaves == {VNone, VInt(1), VInt(2)}

RECURSIVE SeqsUpTo(_, _)
SeqsUpTo(S, n) ==
    IF n = 0 THEN {<<>>}
    ELSE SeqsUpTo(S, n - 1) \cup {Append(s, x) : s \in SeqsUpTo(S, n - 1), x \in S}

\* a mapping whose key "a" holds one of vs (or is absent) and whose key "b"
\* holds 1 (or is absent)
DictsOver(vs) ==
    {VDict([k \in Keys |-> IF k = "a" THEN x ELSE y]) :
        x \in vs \cup {Absent}, y \in {Absent, VInt(1)}}

\* sequences of scalars and flat mappings
Lists == {VList(s) : s \in SeqsUpTo({VInt(1)} \cup DictsOver(Leaves), MaxListLen)}

RECURSIVE Documents(_)
\* mappings nested to depth n
Documents(n) ==
    IF n = 0 THEN DictsOver(Leaves)
    ELSE DictsOver(Leaves \cup Documents(n - 1) \cup Lists)

-----------------------------------------------------------------------------
(* diff_objects as a state machine *)

DiffIdle ==
    /\ existing = EmptyDict
    /\ new = EmptyDict
    /\ dpc = "idle"
    /\ result = NoResult

DiffObjects ==
    /\ dpc = "ready"
    /\ result' = diff_objects(existing, new)
    /\ dpc' = "done"
    /\ UNCHANGED <<existing, new, authVars>>

-----------------------------------------------------------------------------
(* The authentication resolver as a state machine *)

AuthIdle ==
    /\ pc = "ready"
    /\ default_config = BlankConfiguration     \* the process has installed nothing
    /\ previous_default = BlankConfiguration
    /\ configuration = BlankConfiguration
    /\ auth_method = "none"
    /\ calls = <<>>
    /\ outcome = "none"
    /\ client_config = NoClient

\* one invocation of get_api_client, with the collaborators' outcomes.
\* kubernetes.client.Configuration() is the library's: depending on its release
\* it is a fresh object or a copy of the process-wide default; both are admitted.
GetApiClient ==
    /\ pc = "ready"
    /\ \E base \in {BlankConfiguration, default_config},
          inc \in InClusterOutcomes, kc \in KubeconfigOutcomes :
          LET r == get_api_client(kwargs, params, environ, base, default_config,
                                  inc, kc)
          IN  /\ configuration' = r.configuration
              /\ auth_method' = r.auth_method
              /\ calls' = r.calls
              /\ outcome' = r.outcome
              /\ client_config' = r.client_config
              /\ default_config' = r.default_config
    /\ previous_default' = default_config
    /\ pc' = "done"
    /\ UNCHANGED <<kwargs, params, environ, diffVars>>

\* the caller invokes get_api_client once more, with other arguments; any
\* number of invocations follow one another
NextInvocation ==
    /\ pc = "done"
    /\ \E in \in SeqInputs : kwargs' = in[1] /\ params' = in[2]
    /\ pc' = "ready"
    /\ UNCHANGED <<environ, default_config, configuration, auth_method,
                   calls, outcome, client_config, previous_default, diffVars>>


-----------------------------------------------------------------------------
(* Specifications *)

\* one invocation of get_api_client on every input
Init ==
    /\ \E in \in AuthInputs : kwargs = in[1] /\ params = in[2]
    /\ environ \in Environs
    /\ AuthIdle
    /\ DiffIdle

Next == GetApiClient

Spec == Init /\ [][Next]_vars

\* sequences of invocations in one process
InitSeq ==
    /\ \E in \in SeqInputs : kwargs = in[1] /\ params = in[2]
    /\ environ = [v \in EnvNames |-> NoneVal]
    /\ AuthIdle
    /\ DiffIdle

NextSeq == GetApiClient \/ NextInvocation

SpecSeq == InitSeq /\ [][NextSeq]_vars

\* diff_objects on every pair of documents
InitDiff ==
    /\ existing \in Documents(MaxDepth)
    /\ new \in Documents(MaxDepth)
    /\ dpc = "ready"
    /\ result = NoResult
    /\ kwargs = EmptyMapping
    /\ params = EmptyMapping
    /\ environ = [v \in EnvNames |-> NoneVal]
    /\ AuthIdle

NextDiff == DiffObjects

SpecDiff == InitDiff /\ [][NextDiff]_vars

-----------------------------------------------------------------------------
(* Properties of the authentication resolver *)

\* the mapping the last invocation resolved
Auth == EffectiveAuth(kwargs, params)

\* a field is present: supplied and not empty
Present(key) == Truthy(Get(Auth, key))

Rule1 == Present("username") /\ Present("password") /\ Present("host")
Rule2 == Present("api_key") /\ Present("host")
Rule3 == Present("kubeconfig") \/ Present("context")

\* the invocation's calls of new_client_from_config and of load_incluster_config
FileLoads == {j \in 1..Len(calls) : calls[j][1] = "new_client_from_config"}
InClusterTries == {j \in 1..Len(calls) : calls[j][1] = "load_incluster_config"}

\* C1: every invocation selects exactly one method, by priority: username,
\* password and host present -> params; else api_key and host present -> params;
\* else kubeconfig or context present -> file; else default.  The method shows
\* in what the invocation does: params builds the client from the configuration
\* and loads nothing, file loads the credential file and nothing else, default
\* starts with in-cluster discovery.
C1_MethodByPriority ==
    pc = "done" =>
        /\ auth_method \in {"params", "file", "default"}
        /\ Rule1 => auth_method = "params"
        /\ (~Rule1 /\ Rule2) => auth_method = "params"
        /\ (~Rule1 /\ ~Rule2 /\ Rule3) => auth_method = "file"
        /\ (~Rule1 /\ ~Rule2 /\ ~Rule3) => auth_method = "default"
        /\ auth_method = "params" =>
              calls = <<>> /\ outcome = "returned" /\ client_config = configuration
        /\ auth_method = "file" => Len(calls) = 1 /\ FileLoads = {1}
        /\ auth_method = "default" => 1 \in InClusterTries

\* C1 witness: all three conditions hold at once and the first rule wins
C1_Witness ==
    pc = "done" /\ Rule1 /\ Rule2 /\ Rule3 /\ auth_method = "params"

AllFourSupplied ==
    Present("username") /\ Present("password") /\ Present("host") /\ Present("api_key")

\* C2 as claimed: with username, password, host and api_key all supplied the
\* method is params and the client's configuration carries the basic-auth
\* credentials and no bearer token made from api_key.
C2_ApiKeyIgnored ==
    (pc = "done" /\ AllFourSupplied) =>
        /\ auth_method = "params"
        /\ outcome = "returned"
        /\ client_config["username"] = Get(Auth, "username")
        /\ client_config["password"] = Get(Auth, "password")
        /\ client_config["api_key"] # Bearer(Get(Auth, "api_key"))

\* C2 amended: with all four supplied the method is params and the client's
\* configuration carries the basic-auth credentials, the host and also the
\* bearer token made from api_key.
C2_ApiKeyCarried ==
    (pc = "done" /\ AllFourSupplied) =>
        /\ auth_method = "params"
        /\ outcome = "returned"
        /\ client_config["username"] = Get(Auth, "username")
        /\ client_config["password"] = Get(Auth, "password")
        /\ client_config["host"] = Get(Auth, "host")
        /\ client_config["api_key"] = Bearer(Get(Auth, "api_key"))

C2_Witness ==
    pc = "done" /\ AllFourSupplied /\ outcome = "returned"
    /\ client_config["api_key"] = "authorization: Bearer x"

\* the value of a field as the configuration holds it
Stored(key, value) == IF key = "api_key" THEN Bearer(value) ELSE value

\* C3 as claimed: a field whose explicit value is absent or empty takes the
\* value of its environment variable when that is set, and a field with an
\* explicit value equals it (api_key in its bearer wrapping), whatever the method.
C3_EnvFallbackWhenAbsentOrEmpty ==
    pc = "done" =>
        \A f \in AUTH_ARG_SPEC :
            LET e == getenv(environ, EnvName(f)) IN
            /\ (~Present(f) /\ e # NoneVal) => configuration[f] = e
            /\ Present(f) => configuration[f] = Stored(f, Get(Auth, f))

\* C3 amended: a field that the mapping holds with the value None takes the
\* value of its environment variable when that is set; a field the mapping holds
\* with any other value, the empty string included, equals that value (api_key
\* in its bearer wrapping) whatever the environment holds; a field the mapping
\* does not hold is never looked up.  This holds whatever the method.
C3_EnvFallbackWhenNone ==
    pc = "done" =>
        \A f \in AUTH_ARG_SPEC :
            LET e == getenv(environ, EnvName(f)) IN
            /\ (Auth[f] = NoneVal /\ e # NoneVal) => configuration[f] = e
            /\ Auth[f] \notin {NoneVal, Missing} =>
                  configuration[f] = Stored(f, Auth[f])
            /\ Auth[f] = Missing => configuration[f] = previous_default[f]
                                    \/ configuration[f] = Unset

\* C3 witness: host is None, K8S_AUTH_HOST is set, nothing else is, and the
\* configuration's host is the variable's value; and the same under method file
C3_Witness ==
    /\ pc = "done"
    /\ Auth["host"] = NoneVal
    /\ environ["K8S_AUTH_HOST"] = "e"
    /\ configuration["host"] = "e"
    /\ auth_method = "file"

\* C4: under the default method in-cluster discovery comes first; the credential
\* file is loaded only after discovery failed with ConfigException, and then with
\* no path and the given context; when discovery succeeds nothing is loaded, and
\* when it fails otherwise the error propagates and nothing is loaded.
C4_InClusterFirst ==
    (pc = "done" /\ auth_method = "default") =>
        /\ InClusterTries = {1}
        /\ \A j \in FileLoads :
              /\ j = 2
              /\ calls[1][2] = "ConfigException"
              /\ ~Truthy(calls[j][2])
              /\ calls[j][3] = Get(Auth, "context")
        /\ calls[1][2] = "ok" => (Len(calls) = 1 /\ outcome = "returned")
        /\ calls[1][2] = "OtherError" => (Len(calls) = 1 /\ outcome = "raised")
        /\ calls[1][2] = "ConfigException" => FileLoads = {2}

C4_Witness ==
    pc = "done" /\ auth_method = "default" /\ Len(calls) = 2
    /\ calls[1][2] = "ConfigException" /\ calls[2][4] = "ok"

\* C5 as claimed: a failed credential-file load yields a default client only
\* when it failed with not-found (IOError) and no path was given; every other
\* failed load raises and returns no client.
C5_OnlyNotFoundSwallowed ==
    pc = "done" =>
        \A j \in FileLoads :
            calls[j][4] # "ok" =>
                IF calls[j][4] = "IOError" /\ ~Truthy(calls[j][2])
                THEN outcome = "returned" /\ client_config = default_config
                ELSE outcome = "raised" /\ client_config = NoClient

\* C5 amended: a failed credential-file load yields a default client when no
\* path was given and it failed with IOError or with ConfigException; every
\* other failed load (any failure with a path, any other error without) raises
\* and returns no client.
C5_LoadFailures ==
    pc = "done" =>
        \A j \in FileLoads :
            calls[j][4] # "ok" =>
                IF calls[j][4] \in {"IOError", "ConfigException"} /\ ~Truthy(calls[j][2])
                THEN outcome = "returned" /\ client_config = default_config
                ELSE outcome = "raised" /\ client_config = NoClient

C5_Witness ==
    /\ pc = "done"
    /\ \E j \in FileLoads : calls[j][4] = "ConfigException" /\ ~Truthy(calls[j][2])
    /\ outcome = "returned"
    /\ \E f \in AUTH_ARG_SPEC : client_config[f] # Unset

\* C6 as claimed: after an invocation the process-wide default is the
\* configuration that invocation resolved, the one its returned client uses.
C6_DefaultIsClientConfiguration ==
    (pc = "done" /\ outcome = "returned") => default_config = client_config

InClusterSucceeded == \E j \in InClusterTries : calls[j][2] = "ok"
FileLoaded == \E j \in FileLoads : calls[j][4] = "ok"

\* C6 amended: after every invocation of a sequence, failed ones included, the
\* process-wide default is the configuration this invocation built from its own
\* arguments and the environment (the in-cluster configuration when discovery
\* succeeded), whatever an earlier invocation installed; what this invocation
\* supplies overrides what was there, and a field it does not set is the
\* library's, either unset or the earlier default's.  The returned client uses
\* the default, except after a successful credential-file load: that client has
\* the file's configuration, which is not installed.
C6_LastInvocationInstalls ==
    pc = "done" =>
        /\ default_config =
              (IF InClusterSucceeded THEN InClusterConfiguration ELSE configuration)
        /\ \A f \in AUTH_ARG_SPEC :
              IF Auth[f] \notin {NoneVal, Missing}
              THEN configuration[f] = Stored(f, Auth[f])
              ELSE configuration[f] \in {Unset, previous_default[f]}
        /\ outcome = "returned" =>
              client_config =
                 (IF FileLoaded THEN KubeconfigConfiguration ELSE default_config)

\* C6 witness: a later invocation replaces the host an earlier one installed
C6_Witness ==
    /\ pc = "done"
    /\ previous_default["host"] = "x"
    /\ default_config["host"] = "y"
    /\ outcome = "returned"
    /\ client_config = default_config

-----------------------------------------------------------------------------
(* Properties of diff_objects *)

Done == dpc = "done"

\* the entries of the result at index set
Entries == {result.diffs[j] : j \in 1..Len(result.diffs)}

IsPrefix(p, q) == Len(p) <= Len(q) /\ SubSeq(q, 1, Len(p)) = p

\* C7 as claimed: diff_objects never fails on two mappings, and where new holds
\* a mapping and existing a scalar, a null or a sequence, the result does not
\* match and holds a change at or below that key.
C7_NeverFails ==
    Done =>
        /\ ~result.error
        /\ \A k \in Keys :
              (new.d[k].t = "dict" /\ existing.d[k].t \in {"int", "none", "list"}) =>
                  /\ ~result.match
                  /\ \E c \in Entries : c.kind = "change" /\ IsPrefix(<<k>>, c.path)

\* the values a key added to existing may hold
ExtraValues == {VInt(2), VNone}

\* new's value under key k of v, for the walk below: Absent when new has
\* nothing there, Opaque when new holds something that is no mapping
Opaque == [t |-> "opaque"]
Under(n, k) == IF n.t = "dict" THEN n.d[k] ELSE IF n.t = "absent" THEN Absent ELSE Opaque
At(n, j) ==
    IF n.t = "list" THEN (IF j <= Len(n.l) THEN n.l[j] ELSE Absent)
    ELSE IF n.t = "absent" THEN Absent ELSE Opaque

RECURSIVE WithExtraKey(_, _, _)
\* e with one key added that new (n, at the same position) does not mention: at
\* e itself when e is a mapping and n is a mapping or nothing, or further down.
\* With lists = TRUE the walk also enters the elements of a sequence that new
\* holds as a sequence too; otherwise it enters a sequence only where new has
\* nothing at all.
WithExtraKey(e, n, lists) ==
    IF e.t = "dict"
    THEN (IF n.t \in {"dict", "absent"}
          THEN {VDict([e.d EXCEPT ![k] = x]) :
                   k \in {k \in Keys : ~HasKey(e, k) /\ Under(n, k) = Absent},
                   x \in ExtraValues}
          ELSE {})
         \cup UNION {{VDict([e.d EXCEPT ![k] = w]) :
                        w \in WithExtraKey(e.d[k], Under(n, k), lists)} :
                     k \in KeysOf(e)}
    ELSE IF e.t = "list" /\ (n.t = "absent" \/ (lists /\ n.t = "list"))
    THEN UNION {{VList([e.l EXCEPT ![j] = w]) :
                    w \in WithExtraKey(e.l[j], At(n, j), lists)} :
                j \in 1..Len(e.l)}
    ELSE {}

\* C8 as claimed: a key added to existing that new does not mention there, at
\* the root, inside a nested mapping or inside a mapping that is an element of
\* a sequence, leaves the result of diff_objects as it was.
C8_ExtraKeysInvisibleEverywhere ==
    Done => \A e \in WithExtraKey(existing, new, TRUE) : diff_objects(e, new) = result

\* C8 amended: a key added to existing that new does not mention there, at the
\* root or inside a nested mapping reached through mappings of new (or under a
\* key new does not hold at all), leaves the result of diff_objects as it was,
\* match, diffs and failure alike.
C8_ExtraKeysInvisibleInMappings ==
    Done => \A e \in WithExtraKey(existing, new, FALSE) : diff_objects(e, new) = result

\* C8 witness: {"a": 1} against {"a": 1} matches, and so it does with "b" added;
\* and a key can be added inside a nested mapping that both hold
C8_Witness ==
    /\ Done
    /\ result.match
    /\ new.d["a"].t = "dict" /\ existing.d["a"].t = "dict"
    /\ HasKey(new.d["a"], "a") /\ HasKey(existing.d["a"], "a")
    /\ ~HasKey(existing.d["a"], "b")
    /\ \E e \in WithExtraKey(existing, new, FALSE) : HasKey(e.d["a"], "b")
    /\ \E e \in WithExtraKey(existing, new, FALSE) : HasKey(e, "b")

RECURSIVE KeyPaths(_, _)
\* the paths of the keys of a document, through its mappings
KeyPaths(v, node) ==
    IF v.t # "dict" THEN {}
    ELSE UNION {{node \o <<k>>} \cup KeyPaths(v.d[k], node \o <<k>>) : k \in KeysOf(v)}

RECURSIVE ValueAt(_, _)
\* the value at a path of keys; Absent when a mapping on the way lacks the key,
\* Opaque when something on the way is no mapping
ValueAt(v, path) ==
    IF path = <<>> THEN v
    ELSE IF v.t = "absent" THEN Absent
    ELSE IF v.t # "dict" THEN Opaque
    ELSE ValueAt(v.d[Head(path)], Tail(path))

\* existing lacks the key at the path
Lacks(v, path) == ValueAt(v, path) = Absent

\* C9 as claimed (leaving failures of diff_objects aside): a key of new, at the
\* root or nested, that existing lacks makes the result not match, with a
\* change at or below that key whose existing side is the missing sentinel.
C9_NewKeysAlwaysVisible ==
    (Done /\ ~result.error) =>
        \A p \in KeyPaths(new, <<>>) :
            Lacks(existing, p) =>
                /\ ~result.match
                /\ \E c \in Entries :
                      c.kind = "change" /\ IsPrefix(p, c.path) /\ c.second = VNone

\* C9 amended: a key of new, at the root or nested in mappings, that existing
\* lacks and whose value in new is neither null nor a mapping makes
\* diff_objects either fail (the failure of C7, from a mapping of new facing a
\* value of existing that is no mapping) or return a result that does not match
\* and holds the change at exactly that path, from new's value to None; a key
\* whose value is null, or a mapping with no such value below it, is not seen.
\* diff({}, {"a": {"b": 1}}) is the one change at path a.b.
C9_NewKeysVisibleUnlessNull ==
    Done =>
        /\ \A p \in KeyPaths(new, <<>>) :
              (Lacks(existing, p) /\ ValueAt(new, p).t \notin {"none", "dict"}) =>
                  \/ result.error
                  \/ /\ ~result.match
                     /\ Change(p, ValueAt(new, p), VNone) \in Entries
        /\ (/\ existing = EmptyDict
            /\ new = VDict([k \in Keys |-> IF k = "a"
                                           THEN VDict([j \in Keys |->
                                                   IF j = "b" THEN VInt(1) ELSE Absent])
                                           ELSE Absent]))
              => result = [error |-> FALSE, match |-> FALSE,
                           diffs |-> <<Change(<<"a", "b">>, VInt(1), VNone)>>]

\* C9 witness: diff({}, {"a": {"b": 1}})
C9_Witness ==
    /\ Done
    /\ existing = EmptyDict
    /\ ~HasKey(new, "b")
    /\ new.d["a"].t = "dict"
    /\ new.d["a"].d["b"] = VInt(1)
    /\ ~HasKey(new.d["a"], "a")
    /\ Len(result.diffs) = 1

\* C10: diff_objects(m, m) matches with no diffs, for every document m, and
\* every result matches exactly when it holds no diffs.
C10_Reflexive ==
    Done =>
        /\ ~result.error => (result.match <=> result.diffs = <<>>)
        /\ existing = new => result = [error |-> FALSE, match |-> TRUE, diffs |-> <<>>]

\* C10 witness: a document with a nested mapping holding a null, against itself
C10_Witness ==
    /\ Done
    /\ existing = new
    /\ new.d["a"].t = "dict"
    /\ new.d["a"].d["a"] = VNone
    /\ result.match

====
